---- MODULE Spec2Model ----
(***************************************************************************)
(* Model of the PHI detection and redaction engine of hipaa-validator      *)
(* (backend/main.py, backend/phi_scan.py).                                 *)
(*                                                                         *)
(* Texts are sequences of one-character strings.  While a text is being    *)
(* transformed every character is carried in a cell [ch, src]: ch is the   *)
(* character and src its index in the input text, or 0 for a character     *)
(* written by a replacement.  Matching looks at ch only; src is a          *)
(* provenance label used to state where output characters come from.       *)
(***************************************************************************)
EXTENDS Integers, Sequences, FiniteSets, TLC

\* ------------------------------------------------------------------ bounds
MaxTextLen == 3
MaxFindings == 2

\* the characters texts are drawn from: a letter and a non-alphanumeric one
Alphabet == {"a", " "}

\* the characters random.choices is sampled over: a letter that also occurs
\* in texts, a digit that does not, and a punctuation character
SampledChars == {"a", "7", "-"}

Texts == UNION {[1..n -> Alphabet] : n \in 0..MaxTextLen}

\* ------------------------------------------------------------------- state
VARIABLES
  text,        \* the text handed to the transformer
  phi_data,    \* the findings map handed to the transformer
  op,          \* the transformer that ran: "none" before the call
  result,      \* the cells of the text it returned
  tokens,      \* the tokens generate_random_token returned during the call
  replaced,    \* the replacements <<k, p>> made during the call
  nlp,         \* the process-wide recognizer, loaded once
  files,       \* the texts of the two documents the service is given to scan
  scan_text,   \* the text of the file phi_scan read last
  regex_phi_data,    \* what regex_phi_scan returned in the last phi_scan
  ner_phi_data,      \* what ner_phi_scan returned in the last phi_scan
  medical_phi_data,  \* what medical_phi_scan returned in the last phi_scan
  nlp_calls,   \* the chunks ner_phi_scan passed to nlp in the last phi_scan
  scanned,     \* the dict the last phi_scan returned
  runs,        \* number of phi_scan calls so far
  ref,         \* one earlier phi_scan call, remembered: [content, scanned, run]
  request,     \* the upload request: [file_ext, handling_method, body]
  fault,       \* the step of this request that raises, "none" when none does
  processed,   \* the files of PROCESSED_FOLDER, by kind of path
  temp_files,  \* the temporary files of phi_scan_text that exist
  response     \* what upload_file returned

textVars == <<text, phi_data, op, result, tokens, replaced>>
scanVars == <<nlp, files, scan_text, regex_phi_data, ner_phi_data, medical_phi_data,
              nlp_calls, scanned, runs, ref>>
uploadVars == <<request, fault, processed, temp_files, response>>
vars == <<textVars, scanVars, uploadVars>>

\* ------------------------------------------------------- Python primitives
string_ascii_letters ==
  {"a","b","c","d","e","f","g","h","i","j","k","l","m",
   "n","o","p","q","r","s","t","u","v","w","x","y","z",
   "A","B","C","D","E","F","G","H","I","J","K","L","M",
   "N","O","P","Q","R","S","T","U","V","W","X","Y","Z"}

string_digits == {"0","1","2","3","4","5","6","7","8","9"}

\* the cells of a text read from a file: character i comes from index i
Cells(s) == [i \in 1..Len(s) |-> [ch |-> s[i], src |-> i]]

\* the cells of a freshly written string
Fresh(s) == [i \in 1..Len(s) |-> [ch |-> s[i], src |-> 0]]

\* the plain text of a sequence of cells
Plain(cs) == [i \in 1..Len(cs) |-> cs[i].ch]

\* old occurs in cs at index i
MatchAt(cs, old, i) ==
  /\ i >= 1
  /\ i + Len(old) - 1 <= Len(cs)
  /\ \A k \in 1..Len(old) : cs[i + k - 1].ch = old[k]

\* old occurs somewhere in the plain string s (Python: old in s)
Contains(s, old) == \E i \in 1..(Len(s) + 1) : MatchAt(Cells(s), old, i)

RECURSIVE replace_from(_, _, _, _)
replace_from(cs, old, new, i) ==
  IF i > Len(cs) THEN <<>>
  ELSE IF MatchAt(cs, old, i)
       THEN Fresh(new) \o replace_from(cs, old, new, i + Len(old))
       ELSE <<cs[i]>> \o replace_from(cs, old, new, i + 1)

RECURSIVE interleave(_, _, _)
interleave(cs, new, i) ==
  IF i > Len(cs) THEN Fresh(new)
  ELSE Fresh(new) \o <<cs[i]>> \o interleave(cs, new, i + 1)

\* str.replace(old, new): every leftmost non-overlapping occurrence of old,
\* scanning left to right; an empty old inserts new around every character
str_replace(cs, old, new) ==
  IF old = <<>> THEN interleave(cs, new, 1)
  ELSE replace_from(cs, old, new, 1)

RECURSIVE occurrences_from(_, _, _)
occurrences_from(cs, old, i) ==
  IF i > Len(cs) \/ old = <<>> THEN {}
  ELSE IF MatchAt(cs, old, i)
       THEN {i} \cup occurrences_from(cs, old, i + Len(old))
       ELSE occurrences_from(cs, old, i + 1)

\* the start indexes of the occurrences str.replace(old, ...) replaces in cs
Occurrences(cs, old) == occurrences_from(cs, old, 1)

\* " " * n
spaces_bug(n) == IF n = 0 THEN <<>> ELSE <<" ">>
spaces(n) == [i \in 1..n |-> " "]

\* random.choices(population, k=length): the values it can return, over the
\* sampled characters
random_choices(population, k) ==
  {[i \in 1..k |-> c] : c \in population \cap SampledChars}

DefaultTokenLength == 8
generate_random_token_fixed(length) ==
  random_choices(string_ascii_letters \cup string_digits, DefaultTokenLength)
generate_random_token(length) ==
  random_choices(string_ascii_letters \cup string_digits, length)

REDACTED == <<"[", "R", "E", "D", "A", "C", "T", "E", "D", "]">>

\* ------------------------------------------------------------ findings maps
\* A findings map is a Python dict: a sequence of items in insertion order,
\* each [phi_type, instances] with instances a non-empty list of substrings.
Categories == {"PHI_NAME", "PHI_LOCATION"}

\* the non-empty substrings of s
Substrings(s) ==
  {SubSeq(s, i, j) : i \in 1..Len(s), j \in 1..Len(s)} \ {<<>>}

Range(f) == {f[i] : i \in DOMAIN f}

\* lists of n distinct elements of S
DistinctLists(S, n) ==
  {l \in [1..n -> S] : \A i, j \in 1..n : i # j => l[i] # l[j]}

Keys(d) == {d[i].phi_type : i \in DOMAIN d}

\* the maps phi_scan can return for a text whose findings are drawn from S:
\* distinct keys in either insertion order, per key a non-empty list without
\* duplicates, at most MaxFindings findings in all
FindingsMaps(S) ==
  LET Item(c, l) == [phi_type |-> c, instances |-> l]
      One == {<<Item(c, l)>> :
                c \in Categories,
                l \in UNION {DistinctLists(S, n) : n \in 1..MaxFindings}}
      ListsUpTo(m) == UNION {DistinctLists(S, n) : n \in 1..m}
      Ordered == {p \in Categories \X Categories : p[1] # p[2]}
      Two == UNION {
               {<<Item(p[1], l1), Item(p[2], l2)>> :
                  p \in Ordered,
                  l1 \in DistinctLists(S, n1),
                  l2 \in ListsUpTo(MaxFindings - n1)}
               : n1 \in 1..(MaxFindings - 1)}
  IN {<<>>} \cup One \cup Two

RECURSIVE flatten(_, _)
flatten(d, i) ==
  IF i > Len(d) THEN <<>> ELSE d[i].instances \o flatten(d, i + 1)

\* the substrings in the order "for phi_type, substrings in phi_data.items():
\* for substring in substrings" visits them
Iteration(d) == flatten(d, 1)

\* --------------------------------------------------------- text transformer
RECURSIVE redact_loop(_, _, _)
redact_loop(cs, subs, k) ==
  IF k > Len(subs) THEN cs
  ELSE redact_loop(str_replace(cs, subs[k], REDACTED), subs, k + 1)

redact_text(cs, phi) == redact_loop(cs, Iteration(phi), 1)

RECURSIVE remove_loop(_, _, _)
remove_loop(cs, subs, k) ==
  IF k > Len(subs) THEN cs
  ELSE remove_loop(str_replace(cs, subs[k], spaces(Len(subs[k]))), subs, k + 1)

remove_text(cs, phi) == remove_loop(cs, Iteration(phi), 1)

\* toks[k] is the value the k-th call of generate_random_token returned
RECURSIVE tokenize_loop(_, _, _, _)
tokenize_loop(cs, subs, toks, k) ==
  IF k > Len(subs) THEN cs
  ELSE tokenize_loop(str_replace(cs, subs[k], toks[k]), subs, toks, k + 1)

tokenize_text(cs, phi, toks) == tokenize_loop(cs, Iteration(phi), toks, 1)

\* the replacements one of the three loops makes: <<k, p>> when the k-th
\* substring visited is replaced at index p of the text as it is at that time;
\* news[k] is the replacement string of the k-th substring
RECURSIVE replacements(_, _, _, _)
replacements(cs, subs, news, k) ==
  IF k > Len(subs) THEN {}
  ELSE {<<k, p>> : p \in Occurrences(cs, subs[k])}
       \cup replacements(str_replace(cs, subs[k], news[k]), subs, news, k + 1)

\* the token sequences the calls of generate_random_token can return
TokenDraws(phi) ==
  LET subs == Iteration(phi)
      Pool == UNION {generate_random_token(Len(subs[k])) : k \in DOMAIN subs}
  IN {t \in [DOMAIN subs -> Pool] :
        \A k \in DOMAIN subs : t[k] \in generate_random_token(Len(subs[k]))}

\* ------------------------------------------------------------ dict helpers
\* d[key]
dict_get(d, key) ==
  IF \E i \in DOMAIN d : d[i].phi_type = key
  THEN (CHOOSE it \in Range(d) : it.phi_type = key).instances
  ELSE <<>>

\* d[key].extend(values) on a defaultdict(list): a missing key is inserted
\* at the end
dict_extend(d, key, values) ==
  IF \E i \in DOMAIN d : d[i].phi_type = key
  THEN [i \in DOMAIN d |->
          IF d[i].phi_type = key
          THEN [d[i] EXCEPT !.instances = @ \o values] ELSE d[i]]
  ELSE Append(d, [phi_type |-> key, instances |-> values])

\* for key, values in other.items(): phi[key].extend(values)
RECURSIVE extend_all(_, _, _)
extend_all(phi, other, i) ==
  IF i > Len(other) THEN phi
  ELSE extend_all(dict_extend(phi, other[i].phi_type, other[i].instances),
                  other, i + 1)

\* list(set(xs)): the distinct elements of xs, in an order the hash seed picks
list_keep(xs) == {xs}
list_set(xs) ==
  LET S == Range(xs) IN DistinctLists(S, Cardinality(S))

\* --------------------------------------------------------- regular expressions
\* A pattern is abstracted to a literal prefix followed by a literal capture;
\* when it has a capturing group, re.findall returns the capture only.
Lit(l) == [prefix |-> <<>>, capture |-> l, grouped |-> FALSE]
Grp(pre, cap) == [prefix |-> pre, capture |-> cap, grouped |-> TRUE]
Whole(pattern) == pattern.prefix \o pattern.capture

StrMatchAt(s, old, i) ==
  /\ i + Len(old) - 1 <= Len(s)
  /\ \A k \in 1..Len(old) : s[i + k - 1] = old[k]

\* re.findall(pattern, s): the leftmost non-overlapping matches, left to right
RECURSIVE findall_from(_, _, _)
findall_from(pattern, s, i) ==
  IF i > Len(s) THEN <<>>
  ELSE IF StrMatchAt(s, Whole(pattern), i)
       THEN <<IF pattern.grouped THEN pattern.capture ELSE Whole(pattern)>>
            \o findall_from(pattern, s, i + Len(Whole(pattern)))
       ELSE findall_from(pattern, s, i + 1)

re_findall(pattern, s) == findall_from(pattern, s, 1)

\* re.finditer(pattern, s): match.end() of every match, as 0-based offsets
RECURSIVE finditer_ends_from(_, _, _)
finditer_ends_from(pattern, s, i) ==
  IF i > Len(s) THEN <<>>
  ELSE IF StrMatchAt(s, Whole(pattern), i)
       THEN <<i - 1 + Len(Whole(pattern))>>
            \o finditer_ends_from(pattern, s, i + Len(Whole(pattern)))
       ELSE finditer_ends_from(pattern, s, i + 1)

re_finditer_ends(pattern, s) == finditer_ends_from(pattern, s, 1)

\* s[lo:hi] with 0-based offsets 0 <= lo
Slice(s, lo, hi) ==
  LET h == IF hi > Len(s) THEN Len(s) ELSE hi
  IN IF lo >= h THEN <<>> ELSE SubSeq(s, lo + 1, h)

Max(a, b) == IF a >= b THEN a ELSE b
Min(a, b) == IF a <= b THEN a ELSE b

\* ------------------------------------------------------------ failing items
\* re.findall raises for pattern j of the list of phi_type
pattern_raises(phi_type, j) ==
  fault.step = "pattern " \o phi_type /\ fault.page = j

\* nlp(chunk) raises for chunk i of ner_phi_scan
chunk_raises(i) == fault.step = "chunk" /\ fault.page = i

\* nlp(section_context) raises for match m of a section header
window_raises(m) == fault.step = "window" /\ fault.page = m

\* --------------------------------------------------------------- regex scanner
\* the registry of regex_phi_scan, abstracted to literal patterns over the
\* model alphabet: one category with a single pattern and one with a list of
\* two, whose second pattern matches inside the matches of the first (as the
\* 7-digit phone pattern does inside the 10-digit one)
regex_patterns ==
  << [phi_type |-> "PHI_ZIP", pattern_list |-> << Lit(<<"a", "a", "a">>) >>],
     [phi_type |-> "PHI_PHONE",
      pattern_list |-> << Lit(<<"a", " ", "a">>), Lit(<<" ", "a">>) >>] >>

\* for pattern in pattern_list: matches = re.findall(pattern, content);
\* if matches: results[phi_type].extend(matches)
RECURSIVE pattern_list_loop(_, _, _, _, _)
pattern_list_loop(results, phi_type, pattern_list, content, j) ==
  IF j > Len(pattern_list) THEN results
  ELSE LET matches == IF pattern_raises(phi_type, j) THEN <<>>
                      ELSE re_findall(pattern_list[j], content)
       IN pattern_list_loop(
            IF matches # <<>> THEN dict_extend(results, phi_type, matches)
            ELSE results,
            phi_type, pattern_list, content, j + 1)

RECURSIVE patterns_loop(_, _, _, _)
patterns_loop(results, patterns, content, i) ==
  IF i > Len(patterns) THEN results
  ELSE patterns_loop(
         pattern_list_loop(results, patterns[i].phi_type,
                           patterns[i].pattern_list, content, 1),
         patterns, content, i + 1)

regex_phi_scan(content) == patterns_loop(<<>>, regex_patterns, content, 1)

\* ---------------------------------------------------------- entity recognizer
\* The recognizer is a black box.  It is modelled by a lexicon, a function
\* from the entity texts it knows to a label ("O": not an entity); nlp(chunk)
\* reports, left to right, the longest known text at each index.
EntityTexts == {<<"a">>, <<"a", "a", "a">>}
Labels == {"PERSON", "GPE", "DATE"}

\* a family of recognizers in which each text gets each label once
Lexicon(short, long) == [t \in EntityTexts |-> IF Len(t) = 1 THEN short ELSE long]
Recognizers ==
  {Lexicon("PERSON", "PERSON"), Lexicon("GPE", "DATE"),
   Lexicon("O", "GPE"), Lexicon("DATE", "O")}

EntityAt(lex, chunk, i) ==
  LET cands == {t \in EntityTexts : lex[t] # "O" /\ StrMatchAt(chunk, t, i)}
  IN IF cands = {} THEN <<>>
     ELSE CHOOSE t \in cands : \A u \in cands : Len(u) <= Len(t)

RECURSIVE ents_from(_, _, _)
ents_from(lex, chunk, i) ==
  IF i > Len(chunk) THEN <<>>
  ELSE LET t == EntityAt(lex, chunk, i)
       IN IF t = <<>> THEN ents_from(lex, chunk, i + 1)
          ELSE <<[label_ |-> lex[t], text |-> t,
                  start_char |-> i - 1, end_char |-> i - 1 + Len(t)]>>
               \o ents_from(lex, chunk, i + Len(t))

\* nlp(chunk).ents
doc_ents(lex, chunk) == ents_from(lex, chunk, 1)

\* --------------------------------------------------------------- entity scanner
chunk_size == 2
name_context_margin == 20

entity_mapping(label) ==
  CASE label = "PERSON" -> "PHI_NAME"
    [] label = "GPE" -> "PHI_LOCATION"
    [] label = "LOC" -> "PHI_LOCATION"
    [] label = "ORG" -> "PHI_ORGANIZATION"
    [] label = "FAC" -> "PHI_FACILITY"
    [] label = "NORP" -> "PHI_DEMOGRAPHIC"
    [] label = "EVENT" -> "PHI_EVENT"
    [] OTHER -> "unmapped"

\* a title, a separator and the name it captures
name_context_pattern == Grp(<<"a", " ">>, <<"a">>)

\* len(s.split()) == 1
SingleToken(s) == s # <<>> /\ \A i \in DOMAIN s : s[i] \notin {" ", "\n"}

\* [content[i : i + chunk_size] for i in range(0, len(content), chunk_size)]
chunks_of_whole(content) ==
  [c \in 1..(Len(content) \div chunk_size) |->
     Slice(content, (c - 1) * chunk_size, c * chunk_size)]
chunks_of(content) ==
  [c \in 1..((Len(content) + chunk_size - 1) \div chunk_size) |->
     Slice(content, (c - 1) * chunk_size, c * chunk_size)]

\* the body of "for ent in doc.ents" in ner_phi_scan
ner_entity(results, chunk, ent) ==
  LET r1 == IF entity_mapping(ent.label_) # "unmapped"
            THEN dict_extend(results, entity_mapping(ent.label_), <<ent.text>>)
            ELSE results
      context == Slice(chunk, Max(0, ent.start_char - name_context_margin),
                       Min(Len(chunk), ent.end_char + name_context_margin))
      name_matches == re_findall(name_context_pattern, context)
  IN IF ent.label_ = "PERSON" /\ SingleToken(ent.text) /\ name_matches # <<>>
     THEN dict_extend(r1, "PHI_NAME", name_matches)
     ELSE r1

RECURSIVE ner_ents_loop(_, _, _, _)
ner_ents_loop(results, chunk, ents, j) ==
  IF j > Len(ents) THEN results
  ELSE ner_ents_loop(ner_entity(results, chunk, ents[j]), chunk, ents, j + 1)

RECURSIVE ner_chunks_loop(_, _, _, _)
ner_chunks_loop(results, lex, chunks, i) ==
  IF i > Len(chunks) THEN results
  ELSE ner_chunks_loop(
         IF chunk_raises(i) THEN results
         ELSE ner_ents_loop(results, chunks[i], doc_ents(lex, chunks[i]), 1),
         lex, chunks, i + 1)

\* the arguments of the calls nlp(chunk) the loop over the chunks makes
RECURSIVE ner_calls_loop(_, _, _)
ner_calls_loop(calls, chunks, i) ==
  IF i > Len(chunks) THEN calls
  ELSE ner_calls_loop(Append(calls, chunks[i]), chunks, i + 1)

ner_calls(content) == ner_calls_loop(<<>>, chunks_of(content), 1)

ner_phi_scan(content, lex) ==
  ner_chunks_loop(<<>>, lex, chunks_of(content), 1)

\* --------------------------------------------------- medical / context scanner
\* the try blocks of medical_phi_scan: one around each re.findall, and one
\* around the whole loop over the sections and their matches
\* the pattern registry of medical_phi_scan, abstracted: every pattern has a
\* capturing group
medical_patterns ==
  << [phi_type |-> "PHI_PROVIDER",
      pattern_list |-> << Grp(<<"a", " ">>, <<"a">>) >>] >>

section_context_length == 300

\* the section headers, abstracted to one literal trigger
sections ==
  << [section_pattern |-> Lit(<<" ">>), context_length |-> section_context_length] >>

context_labels == {"PERSON", "ORG", "GPE", "LOC"}

\* for ent in doc.ents: if ent.label_ in [...]:
\*   medical_results[f"PHI_{ent.label_}"].append(ent.text)
RECURSIVE section_ents_loop(_, _, _)
section_ents_loop(results, ents, j) ==
  IF j > Len(ents) THEN results
  ELSE section_ents_loop(
         IF ents[j].label_ \in context_labels
         THEN dict_extend(results, "PHI_" \o ents[j].label_, <<ents[j].text>>)
         ELSE results,
         ents, j + 1)

RECURSIVE section_matches_loop(_, _, _, _, _, _)
section_matches_loop(results, lex, content, ends, context_length, m) ==
  IF m > Len(ends) \/ window_raises(m) THEN results
  ELSE LET start == ends[m]
           section_context == Slice(content, start, start + context_length)
       IN section_matches_loop(
            section_ents_loop(results, doc_ents(lex, section_context), 1),
            lex, content, ends, context_length, m + 1)

RECURSIVE sections_loop(_, _, _, _)
sections_loop(results, lex, content, i) ==
  IF i > Len(sections) THEN results
  ELSE LET ends == re_finditer_ends(sections[i].section_pattern, content)
           done == section_matches_loop(results, lex, content, ends,
                                        sections[i].context_length, 1)
       IN IF \E m \in DOMAIN ends : window_raises(m)
          THEN done  \* the exception leaves the loop over the sections
          ELSE sections_loop(done, lex, content, i + 1)

medical_phi_scan(content, lex) ==
  sections_loop(patterns_loop(<<>>, medical_patterns, content, 1),
                lex, content, 1)

\* ------------------------------------------------------------------- phi_scan
\* steps 1 to 3 of phi_scan: the three results appended to phi_data
merge_first_only(start, regex, ner, medical) == extend_all(start, regex, 1)
merge_results(start, regex, ner, medical) ==
  extend_all(extend_all(extend_all(start, regex, 1), ner, 1), medical, 1)

\* step 4: for key in phi_data: phi_data[key] = list(set(phi_data[key]));
\* the dicts this can leave, one per order list(set(...)) can produce
RECURSIVE deduplicate(_, _)
deduplicate(d, i) ==
  IF i > Len(d) THEN {<<>>}
  ELSE {<<[phi_type |-> d[i].phi_type, instances |-> l]>> \o rest :
          l \in list_set(d[i].instances), rest \in deduplicate(d, i + 1)}

\* ------------------------------------------------------------ idle values
NoRef == [content |-> <<"?">>, scanned |-> <<>>, run |-> 0]

IdleText ==
  /\ text = <<>>
  /\ phi_data = <<>>
  /\ op = "none"
  /\ result = <<>>
  /\ tokens = <<>>
  /\ replaced = {}

IdleScan ==
  /\ nlp = [t \in EntityTexts |-> "O"]
  /\ files = <<<<>>, <<>>>>
  /\ scan_text = <<>>
  /\ regex_phi_data = <<>>
  /\ ner_phi_data = <<>>
  /\ medical_phi_data = <<>>
  /\ nlp_calls = <<>>
  /\ scanned = <<>>
  /\ runs = 0
  /\ ref = NoRef

NoFile == [kind |-> "none"]
NoResponse == [code |-> 0, status |-> "none", file |-> NoFile, fileType |-> ""]

\* a fault names the step that raises and, where the step is repeated, the
\* page or the item at which it raises
NoFault == [step |-> "none", page |-> 0]

IdleUpload ==
  /\ request = [file_ext |-> "", handling_method |-> "", body |-> NoFile]
  /\ fault = NoFault
  /\ processed = [path \in {} |-> NoFile]
  /\ temp_files = {}
  /\ response = NoResponse

\* --------------------------------------------------------------- process_text
\* the handlingMethod values of the form: the three policies and an unknown one
Methods == {"redact", "tokenize", "remove", "shred"}

\* the policies process_text and create_processed_pdf know
KnownPolicies == {"redact", "tokenize", "remove"}

\* process_text: the exception it raises ("none" when it returns) and the
\* cells of the text it returns
process_text_default(cs, handling_method, phi, toks) ==
  IF handling_method = "tokenize"
  THEN [raised |-> "none", text |-> tokenize_text(cs, phi, toks)]
  ELSE IF handling_method = "remove"
  THEN [raised |-> "none", text |-> remove_text(cs, phi)]
  ELSE [raised |-> "none", text |-> redact_text(cs, phi)]
process_text(cs, handling_method, phi, toks) ==
  CASE handling_method = "redact" ->
         [raised |-> "none", text |-> redact_text(cs, phi)]
    [] handling_method = "tokenize" ->
         [raised |-> "none", text |-> tokenize_text(cs, phi, toks)]
    [] handling_method = "remove" ->
         [raised |-> "none", text |-> remove_text(cs, phi)]
    [] OTHER -> [raised |-> "Unknown handling method", text |-> <<>>]

\* ------------------------------------------------- the text transformer alone
InitText ==
  /\ text \in Texts
  /\ phi_data \in FindingsMaps(Substrings(text))
  /\ op = "none"
  /\ result = <<>>
  /\ tokens = <<>>
  /\ replaced = {}
  /\ IdleScan
  /\ IdleUpload

CallRedact ==
  /\ op = "none"
  /\ op' = "redact"
  /\ result' = redact_text(Cells(text), phi_data)
  /\ replaced' = LET subs == Iteration(phi_data)
                 IN replacements(Cells(text), subs,
                                 [k \in DOMAIN subs |-> REDACTED], 1)
  /\ UNCHANGED <<text, phi_data, tokens, scanVars, uploadVars>>

CallRemove ==
  /\ op = "none"
  /\ op' = "remove"
  /\ result' = remove_text(Cells(text), phi_data)
  /\ replaced' = LET subs == Iteration(phi_data)
                 IN replacements(Cells(text), subs,
                                 [k \in DOMAIN subs |-> spaces(Len(subs[k]))], 1)
  /\ UNCHANGED <<text, phi_data, tokens, scanVars, uploadVars>>

CallTokenize ==
  /\ op = "none"
  /\ \E toks \in TokenDraws(phi_data) :
       /\ tokens' = toks
       /\ result' = tokenize_text(Cells(text), phi_data, toks)
       /\ replaced' = replacements(Cells(text), Iteration(phi_data), toks, 1)
  /\ op' = "tokenize"
  /\ UNCHANGED <<text, phi_data, scanVars, uploadVars>>

\* process_text called with a policy that is none of the three; with one of
\* the three it calls the transformer of the actions above
CallProcessText ==
  /\ op = "none"
  /\ \E handling_method \in Methods \ KnownPolicies :
       LET made == process_text(Cells(text), handling_method, phi_data, <<>>)
           subs == Iteration(phi_data)
       IN /\ op' = IF made.raised = "none" THEN handling_method ELSE "ValueError"
          /\ result' = made.text
          /\ replaced' = IF made.raised = "none"
                         THEN replacements(Cells(text), subs,
                                           [k \in DOMAIN subs |-> REDACTED], 1)
                         ELSE {}
  /\ UNCHANGED <<text, phi_data, tokens, scanVars, uploadVars>>

NextText == CallRedact \/ CallRemove \/ CallTokenize \/ CallProcessText

SpecText == InitText /\ [][NextText]_vars

\* ------------------------------------------------------------ the scanner alone
MaxScans == 3

\* phi_data = defaultdict(list), at the start of every phi_scan
phi_data_kept == scanned
phi_data_fresh == <<>>

InitScan ==
  /\ IdleText
  /\ IdleUpload
  /\ nlp \in Recognizers
  /\ files \in Texts \X Texts
  /\ scan_text = <<>>
  /\ regex_phi_data = <<>>
  /\ ner_phi_data = <<>>
  /\ medical_phi_data = <<>>
  /\ nlp_calls = <<>>
  /\ scanned = <<>>
  /\ runs = 0
  /\ ref = NoRef

\* phi_scan: the dicts it can return for a file holding the text t
phi_scan_regex_only(t, lex) ==
  deduplicate(merge_results(phi_data_fresh, regex_phi_scan(t), <<>>, <<>>), 1)
phi_scan(t, lex) ==
  deduplicate(merge_results(phi_data_fresh, regex_phi_scan(t),
                            ner_phi_scan(t, lex), medical_phi_scan(t, lex)), 1)

\* one call phi_scan(file_path), the file holding the text t of one of the
\* two documents
PhiScan ==
  /\ runs < MaxScans
  /\ \E t \in {files[1], files[2]} :
       /\ scan_text' = t
       /\ regex_phi_data' = regex_phi_scan(t)
       /\ ner_phi_data' = ner_phi_scan(t, nlp)
       /\ medical_phi_data' = medical_phi_scan(t, nlp)
       /\ nlp_calls' = ner_calls(t)
       /\ \E d \in phi_scan(t, nlp) :
            /\ scanned' = d
            /\ ref' \in IF ref = NoRef
                        THEN {ref, [content |-> t, scanned |-> d, run |-> runs + 1]}
                        ELSE {ref}
  /\ runs' = runs + 1
  /\ UNCHANGED <<nlp, files, textVars, uploadVars>>

NextScan == PhiScan

SpecScan == InitScan /\ [][NextScan]_vars

\* ------------------------------------------- the scanner with a failing item
MaxItems == 2

\* one item of the scan raises: a pattern of either registry, a chunk of the
\* entity scanner, or the context window of a section header
ItemFaults ==
  {[step |-> "pattern " \o regex_patterns[i].phi_type, page |-> j] :
     i \in DOMAIN regex_patterns, j \in 1..MaxItems}
  \cup {[step |-> "pattern " \o medical_patterns[i].phi_type, page |-> j] :
          i \in DOMAIN medical_patterns, j \in 1..MaxItems}
  \cup {[step |-> st, page |-> k] : st \in {"chunk", "window"}, k \in 1..MaxItems}

InitScanFaults ==
  /\ IdleText
  /\ nlp \in Recognizers
  /\ \E t \in Texts : files = <<t, t>>
  /\ scan_text = <<>>
  /\ regex_phi_data = <<>>
  /\ ner_phi_data = <<>>
  /\ medical_phi_data = <<>>
  /\ nlp_calls = <<>>
  /\ scanned = <<>>
  /\ runs = 0
  /\ ref = NoRef
  /\ request = [file_ext |-> "", handling_method |-> "", body |-> NoFile]
  /\ fault \in ItemFaults
  /\ processed = [path \in {} |-> NoFile]
  /\ temp_files = {}
  /\ response = NoResponse

SpecScanFaults == InitScanFaults /\ [][NextScan]_vars

\* ------------------------------------------------------------ uploaded files
MaxPages == 2

\* the words pdfplumber finds on a page, for a few pages
PageSamples ==
  {<<>>,
   <<<<"a">>>>,
   <<<<"a">>, <<"a">>>>,
   <<<<"a", "a", "a">>>>,
   <<<<"a", "a", "a", "a">>, <<"a", "a", "a">>>>}

\* a page of an uploaded PDF has no overlay
NoOverlay == [boxes |-> <<>>, footer |-> [policy |-> "", count |-> 0]]

\* the bytes of a PDF: who encoded it, and its pages
PdfFile(encoder, pages) == [kind |-> "pdf", encoder |-> encoder, pages |-> pages]

\* the uploaded PDFs: at most MaxPages pages
PdfBodies ==
  {PdfFile("upload", pages) :
     pages \in UNION {[1..m -> [words : PageSamples, overlay : {NoOverlay}]] :
                        m \in 0..MaxPages}}

TextFile(t) == [kind |-> "text", text |-> t]
DocxFile(paragraphs) == [kind |-> "docx", paragraphs |-> paragraphs]

\* the requests: a PDF, a text file or a Word document, and the policy
Requests ==
  [file_ext : {".pdf"}, handling_method : Methods, body : PdfBodies]
  \cup [file_ext : {".txt"}, handling_method : Methods,
        body : {TextFile(t) : t \in Texts}]
  \cup [file_ext : {".docx", ".doc"}, handling_method : Methods,
        body : {DocxFile(<<t>>) : t \in Texts}]

\* the step of the request that raises: saving the upload, opening the
\* document, writing the text to the temporary file, the scan, reading the words, compositing the overlay of one page,
\* or writing the output
Faults ==
  {[step |-> st, page |-> 0] : st \in {"none", "save", "open", "tempwrite", "scan", "words", "write"}}
  \cup {[step |-> "merge", page |-> k] : k \in 1..MaxPages}

\* sep.join(parts)
RECURSIVE join(_, _, _)
join(sep, parts, i) ==
  IF i > Len(parts) THEN <<>>
  ELSE IF i = Len(parts) THEN parts[i]
  ELSE parts[i] \o sep \o join(sep, parts, i + 1)

\* text.strip() is empty
Blank(t) == \A i \in DOMAIN t : t[i] \in {" ", "\n"}

\* messages, each one character of the text that carries it
NoReadableText == <<"[No readable text found in the PDF]">>
ErrorProcessingPdf == <<"[Error processing PDF]">>
DocRequiresWindows == <<"DOC file processing requires Windows">>

\* the loop over pdf.pages of extract_text_from_pdf
RECURSIVE pages_text(_, _)
pages_text(pages, i) ==
  IF i > Len(pages) THEN <<>>
  ELSE LET page_text == join(<<" ">>, pages[i].words, 1)
       IN (IF page_text # <<>> THEN page_text \o <<"\n">> ELSE <<>>)
          \o pages_text(pages, i + 1)

extract_text_from_pdf(body, flt) ==
  IF flt.step = "open" THEN ErrorProcessingPdf
  ELSE LET t == pages_text(body.pages, 1)
       IN IF Blank(t) THEN NoReadableText ELSE t

extract_text_from_doc(body, file_ext, flt) ==
  IF file_ext = ".docx"
  THEN IF flt.step = "open" THEN <<>> ELSE join(<<"\n">>, body.paragraphs, 1)
  ELSE DocRequiresWindows

\* phi_scan_text: the dicts it can return
phi_scan_text_keeps_findings(t, lex, flt) ==
  IF flt.step = "tempwrite" THEN {<<>>} ELSE phi_scan(t, lex)
phi_scan_text(t, lex, flt) ==
  IF flt.step \in {"tempwrite", "scan"} THEN {<<>>} ELSE phi_scan(t, lex)

\* os.unlink(temp_file_path) in the finally block of phi_scan_text
unlink_never(temp, temp_file_path) == temp
unlink(temp, temp_file_path) == {f \in temp : f.path # temp_file_path}

\* the temporary files phi_scan_text leaves behind: the file is created, the
\* text is written to it, the scan runs, and the finally block removes it
phi_scan_text_files(t, flt) ==
  LET temp_file_path == "tmp"
      written == IF flt.step = "tempwrite"
                 THEN {[path |-> temp_file_path, text |-> <<>>]}
                 ELSE {[path |-> temp_file_path, text |-> t]}
  IN unlink(written, temp_file_path)

\* ------------------------------------------------------------- page redactor
\* the indexes of the words of the page that match phi_instance, in page order
matched_words_exact(words, phi_instance) ==
  SelectSeq([i \in 1..Len(words) |-> i], LAMBDA i : words[i] = phi_instance)
matched_words(words, phi_instance) ==
  SelectSeq([i \in 1..Len(words) |-> i],
            LAMBDA i : words[i] = phi_instance \/ Contains(words[i], phi_instance))

\* what the branch on handling_method draws over one matched word; c is the
\* character the token of this request is made of
draw(handling_method, phi_instance, w, c) ==
  CASE handling_method = "redact" ->
         <<[word |-> w, phi_instance |-> phi_instance, fill |-> "black",
            label |-> REDACTED]>>
    [] handling_method = "tokenize" ->
         <<[word |-> w, phi_instance |-> phi_instance, fill |-> "white",
            label |-> CHOOSE t \in generate_random_token(Len(phi_instance)) :
                        t[1] = c]>>
    [] handling_method = "remove" ->
         <<[word |-> w, phi_instance |-> phi_instance, fill |-> "white",
            label |-> <<>>]>>
    [] OTHER -> <<>>

RECURSIVE draw_words(_, _, _, _, _)
draw_words(handling_method, phi_instance, matched, c, j) ==
  IF j > Len(matched) THEN <<>>
  ELSE draw(handling_method, phi_instance, matched[j], c)
       \o draw_words(handling_method, phi_instance, matched, c, j + 1)

\* the loops over phi_data.items() and instances on one page: the boxes drawn
\* and the number of words counted
min_instance_length == 3

RECURSIVE instances_loop(_, _, _, _, _)
instances_loop(words, subs, handling_method, c, k) ==
  IF k > Len(subs) THEN [boxes |-> <<>>, counted |-> 0]
  ELSE LET rest == instances_loop(words, subs, handling_method, c, k + 1)
           matched == matched_words(words, subs[k])
       IN IF Len(subs[k]) < min_instance_length THEN rest
          ELSE [boxes |-> draw_words(handling_method, subs[k], matched, c, 1)
                          \o rest.boxes,
                counted |-> Len(matched) + rest.counted]

\* the loop over pages_text from page i on, redaction_count carried from the
\* earlier pages: the pages added to the writer
\* page = reader.pages[page_num], the pages counted from 1
reader_first_page(pages, page_num) == pages[1]
reader_page(pages, page_num) == pages[page_num]

RECURSIVE pages_loop(_, _, _, _, _, _)
pages_loop(pages, phi, handling_method, c, redaction_count, i) ==
  IF i > Len(pages) THEN <<>>
  ELSE LET drawn == instances_loop(pages[i].words, Iteration(phi),
                                   handling_method, c, 1)
           count == redaction_count + drawn.counted
       IN <<[words |-> reader_page(pages, i).words,
             overlay |-> [boxes |-> drawn.boxes,
                          footer |-> [policy |-> handling_method,
                                      count |-> count]]]>>
          \o pages_loop(pages, phi, handling_method, c, count, i + 1)

PartialFile == [kind |-> "partial"]

\* create_processed_pdf: the exception it raises ("none" when it returns) and
\* what it leaves at output_path
create_processed_pdf(body, phi, handling_method, flt, c) ==
  IF flt.step \in {"open", "words"}
  THEN [raised |-> "reading words failed", written |-> NoFile]
  ELSE IF flt.step = "merge" /\ flt.page <= Len(body.pages)
  THEN [raised |-> "merging the overlay failed", written |-> NoFile]
  ELSE IF flt.step = "write"
  THEN [raised |-> "writing the output failed", written |-> PartialFile]
  ELSE [raised |-> "none",
        written |-> PdfFile("PyPDF2",
                            pages_loop(body.pages, phi, handling_method, c, 0, 1))]

\* the pages whose overlay was drawn before create_processed_pdf ended
drawn_pages(body, phi, handling_method, flt, c) ==
  IF flt.step \in {"open", "words"} THEN <<>>
  ELSE IF flt.step = "merge" /\ flt.page <= Len(body.pages)
  THEN pages_loop(SubSeq(body.pages, 1, flt.page), phi, handling_method, c, 0, 1)
  ELSE pages_loop(body.pages, phi, handling_method, c, 0, 1)

\* the labels of the boxes of the pages from page i on
RECURSIVE box_labels(_, _)
box_labels(pages, i) ==
  IF i > Len(pages) THEN <<>>
  ELSE [b \in DOMAIN pages[i].overlay.boxes |-> pages[i].overlay.boxes[b].label]
       \o box_labels(pages, i + 1)

\* ------------------------------------------------------------- the handlers
\* the file an except branch writes: its prefix and str(e)
ErrorFile(prefix, message) == TextFile(<<prefix, message>>)

\* "if not phi_data" in process_pdf
no_phi_never(phi) == FALSE
no_phi(phi) == phi = <<>>

\* process_pdf from step 3 on, for the text extracted and the findings scanned
process_pdf_step3(body, handling_method, text_content, phi, flt, c) ==
  LET made == create_processed_pdf(body, phi, handling_method, flt, c)
      error == ErrorFile("Error processing PDF", made.raised)
      scan == [text |-> text_content, phi_data |-> phi]
  IN IF no_phi(phi)
     THEN scan @@ [files |-> "processed.pdf" :> body, path |-> "processed.pdf",
                   tokens |-> <<>>]
     ELSE LET toks == IF handling_method = "tokenize"
                      THEN box_labels(drawn_pages(body, phi, handling_method,
                                                  flt, c), 1)
                      ELSE <<>>
          IN IF made.raised = "none"
             THEN scan @@ [files |-> "processed.pdf" :> made.written,
                           path |-> "processed.pdf", tokens |-> toks]
             ELSE scan @@ [files |-> IF made.written = NoFile
                                     THEN "error.txt" :> error
                                     ELSE ("processed.pdf" :> made.written)
                                          @@ ("error.txt" :> error),
                           path |-> "error.txt", tokens |-> toks]

\* process_pdf: the outcomes it can have
process_pdf(body, handling_method, lex, flt) ==
  LET text_content == extract_text_from_pdf(body, flt)
  IN {process_pdf_step3(body, handling_method, text_content, phi, flt, c) :
        phi \in phi_scan_text(text_content, lex, flt),
        c \in {t[1] : t \in generate_random_token(1)}}

\* process_file from the transformation on
process_file_step3(t, handling_method, phi, toks) ==
  LET made == process_text(Cells(t), handling_method, phi, toks)
      scan == [text |-> t, phi_data |-> phi, tokens |-> toks]
  IN IF made.raised = "none"
     THEN scan @@ [files |-> "processed.txt" :> TextFile(Plain(made.text)),
                   path |-> "processed.txt", result |-> made.text]
     ELSE scan @@ [files |-> "error.txt"
                              :> ErrorFile("Error processing file", made.raised),
                   path |-> "error.txt", result |-> <<>>]

\* process_file: the outcomes it can have
process_file(body, handling_method, file_ext, lex, flt) ==
  LET t == IF file_ext \in {".doc", ".docx"}
           THEN extract_text_from_doc(body, file_ext, flt)
           ELSE body.text
  IN UNION {{process_file_step3(t, handling_method, phi, toks) :
               toks \in IF handling_method = "tokenize"
                        THEN TokenDraws(phi) ELSE {<<>>}} :
            phi \in phi_scan_text(t, lex, flt)}

\* the responses of upload_file
Success(file, fileType) ==
  [code |-> 200, status |-> "success", file |-> file, fileType |-> fileType]
ErrorResponse == [code |-> 500, status |-> "error", file |-> NoFile, fileType |-> ""]

\* the scan phi_scan_text made, when it made one
Scanned(t, phi) ==
  IF fault.step \in {"tempwrite", "scan"}
  THEN UNCHANGED <<scan_text, regex_phi_data, ner_phi_data, medical_phi_data,
                   nlp_calls, scanned, runs>>
  ELSE /\ scan_text' = t
       /\ regex_phi_data' = regex_phi_scan(t)
       /\ ner_phi_data' = ner_phi_scan(t, nlp)
       /\ medical_phi_data' = medical_phi_scan(t, nlp)
       /\ nlp_calls' = ner_calls(t)
       /\ scanned' = phi
       /\ runs' = runs + 1

InitUpload ==
  /\ IdleText
  /\ nlp \in Recognizers
  /\ files = <<<<>>, <<>>>>
  /\ scan_text = <<>>
  /\ regex_phi_data = <<>>
  /\ ner_phi_data = <<>>
  /\ medical_phi_data = <<>>
  /\ nlp_calls = <<>>
  /\ scanned = <<>>
  /\ runs = 0
  /\ ref = NoRef
  /\ request \in Requests
  /\ fault \in Faults
  /\ processed = [path \in {} |-> NoFile]
  /\ temp_files = {}
  /\ response = NoResponse

\* upload_file, the branch file_ext == ".pdf"
UploadPdf ==
  /\ response = NoResponse
  /\ request.file_ext = ".pdf"
  /\ IF fault.step = "save"
     THEN /\ response' = ErrorResponse
          /\ UNCHANGED <<text, phi_data, tokens, processed, temp_files, scan_text,
                         regex_phi_data, ner_phi_data, medical_phi_data,
                         nlp_calls, scanned, runs>>
     ELSE \E out \in process_pdf(request.body, request.handling_method, nlp, fault) :
            /\ text' = out.text
            /\ phi_data' = out.phi_data
            /\ tokens' = out.tokens
            /\ processed' = out.files
            /\ temp_files' = phi_scan_text_files(out.text, fault)
            /\ Scanned(out.text, out.phi_data)
            /\ response' = Success(out.files[out.path], "pdf")
  /\ UNCHANGED <<op, result, replaced, nlp, files, ref, request, fault>>

\* upload_file, the branch of the other file types
UploadOther ==
  /\ response = NoResponse
  /\ request.file_ext # ".pdf"
  /\ IF fault.step = "save"
     THEN /\ response' = ErrorResponse
          /\ UNCHANGED <<text, phi_data, tokens, result, op, processed, temp_files,
                         scan_text,
                         regex_phi_data, ner_phi_data, medical_phi_data,
                         nlp_calls, scanned, runs>>
     ELSE \E out \in process_file(request.body, request.handling_method,
                                  request.file_ext, nlp, fault) :
            /\ text' = out.text
            /\ phi_data' = out.phi_data
            /\ tokens' = out.tokens
            /\ result' = out.result
            /\ op' = IF out.path = "processed.txt"
                     THEN request.handling_method ELSE "none"
            /\ processed' = out.files
            /\ temp_files' = phi_scan_text_files(out.text, fault)
            /\ Scanned(out.text, out.phi_data)
            /\ response' = Success(out.files[out.path], "txt")
  /\ UNCHANGED <<replaced, nlp, files, ref, request, fault>>

NextUpload == UploadPdf \/ UploadOther

SpecUpload == InitUpload /\ [][NextUpload]_vars

\* ---------------------------------------------------------------- claims
\* the index range an occurrence of s at index p covers
Span(p, s) == p..(p + Len(s) - 1)

\* C1 (as claimed): after redact_text no character of an occurrence of a
\* finding substring in the input text is left in the returned text: every
\* occurrence was replaced by the marker, also when findings overlap or
\* contain one another.  Occurrences are counted as str.replace counts them.
C1_RedactReplacesEveryOccurrence ==
  op = "redact" =>
    \A s \in Range(Iteration(phi_data)) :
      \A p \in Occurrences(Cells(text), s) :
        \A i \in Span(p, s) : \A j \in DOMAIN result : result[j].src # i

\* C2: remove_text returns a text of the length of the input; every replaced
\* occurrence of a substring s is a run of len(s) spaces, and every character
\* outside the replaced occurrences is the input character at that index.
C2_RemoveKeepsLayout ==
  op = "remove" =>
    LET subs == Iteration(phi_data) IN
    /\ Len(result) = Len(text)
    /\ \A e \in replaced :
         /\ Span(e[2], subs[e[1]]) \subseteq DOMAIN result
         /\ \A i \in Span(e[2], subs[e[1]]) : result[i] = [ch |-> " ", src |-> 0]
    /\ \A i \in DOMAIN result :
         (\A e \in replaced : i \notin Span(e[2], subs[e[1]]))
           => result[i] = [ch |-> text[i], src |-> i]

\* C2 witness: remove_text replaced a substring of two or more characters and
\* left another character of the text in place.
C2_Witness ==
  /\ op = "remove"
  /\ \E e \in replaced : Len(Iteration(phi_data)[e[1]]) >= 2
  /\ \E i \in DOMAIN result : result[i].src = i /\ result[i].ch # " "

ListOrders(q) ==
  {[i \in DOMAIN q |-> q[f[i]]] :
     f \in {g \in [DOMAIN q -> DOMAIN q] : \A i, j \in DOMAIN q : i # j => g[i] # g[j]}}

\* the maps with the categories and substrings of d, in any iteration order
Reorderings(d) ==
  {e \in UNION {FindingsMaps(Range(Iteration(d)))} :
     /\ Len(e) = Len(d)
     /\ \A i \in DOMAIN d : \E j \in DOMAIN e :
          /\ e[j].phi_type = d[i].phi_type
          /\ e[j].instances \in ListOrders(d[i].instances)}

\* C9 (as claimed): for redact and remove the returned text is the same for
\* every order in which the categories and substrings of the findings map
\* are visited.
C9_OrderIndependent ==
  /\ op = "redact" =>
       \A d \in Reorderings(phi_data) :
         Plain(redact_text(Cells(text), d)) = Plain(result)
  /\ op = "remove" =>
       \A d \in Reorderings(phi_data) :
         Plain(remove_text(Cells(text), d)) = Plain(result)

\* a list holds no element twice
NoDuplicates(l) == \A i, j \in DOMAIN l : i # j => l[i] # l[j]

\* a scanner result holds some substring twice under one category
ReportsTwice(d) == \E i \in DOMAIN d : ~NoDuplicates(d[i].instances)

\* C7: in the map phi_scan returns, no category's list holds the same
\* substring twice, whatever the three scanners reported.
C7_NoDuplicateFindings ==
  \A i \in DOMAIN scanned : NoDuplicates(scanned[i].instances)

\* C7 witness: phi_scan returned after a scanner reported one substring twice
\* under one category.
C7_Witness ==
  /\ runs >= 1
  /\ ReportsTwice(regex_phi_data) \/ ReportsTwice(ner_phi_data)
       \/ ReportsTwice(medical_phi_data)
  /\ scanned # <<>>

\* the substrings the three scanners reported under a category
Reported(key) ==
  Range(dict_get(regex_phi_data, key)) \cup Range(dict_get(ner_phi_data, key))
    \cup Range(dict_get(medical_phi_data, key))

\* C8: the map phi_scan returns has exactly the categories of the three
\* scanner results, each once, and under each category exactly the substrings
\* some scanner reported under it.
C8_UnionOfScanners ==
  /\ Keys(scanned) =
       Keys(regex_phi_data) \cup Keys(ner_phi_data) \cup Keys(medical_phi_data)
  /\ \A i, j \in DOMAIN scanned :
       i # j => scanned[i].phi_type # scanned[j].phi_type
  /\ \A i \in DOMAIN scanned :
       Range(scanned[i].instances) = Reported(scanned[i].phi_type)

\* C8 witness: phi_scan returned after each of the three scanners reported
\* findings.
C8_Witness ==
  /\ runs >= 1
  /\ regex_phi_data # <<>>
  /\ ner_phi_data # <<>>
  /\ medical_phi_data # <<>>

\* a findings map as categories with sets of substrings
AsSets(d) == {<<d[i].phi_type, Range(d[i].instances)>> : i \in DOMAIN d}

C4_UnknownPolicyFails ==
  (response # NoResponse /\ request.handling_method \notin KnownPolicies) =>
    /\ response.status # "success"
    /\ response.file = NoFile
    /\ DOMAIN processed \cap {"processed.pdf", "processed.txt"} = {}

\* process_pdf ran and the findings map it got from the scan is empty
EmptyFindingsPdf ==
  /\ request.file_ext = ".pdf"
  /\ response # NoResponse
  /\ fault.step # "save"
  /\ phi_data = <<>>

\* C5: when process_pdf handles a PDF whose findings map is empty, the file
\* it writes is the uploaded file itself, byte for byte: not re-encoded, no
\* overlay, no footer, whatever the handling policy; and that file is returned.
C5_PassthroughByteIdentical ==
  EmptyFindingsPdf =>
    /\ DOMAIN processed = {"processed.pdf"}
    /\ processed["processed.pdf"] = request.body
    /\ response.file = request.body

\* a PDF with readable text in which the scan, run without failure, found
\* nothing, uploaded with a policy that would have drawn an overlay
C5_Witness ==
  /\ EmptyFindingsPdf
  /\ fault = NoFault
  /\ request.handling_method = "redact"
  /\ request.body.pages # <<>>
  /\ text \notin {NoReadableText, ErrorProcessingPdf}
  /\ processed["processed.pdf"].encoder = "upload"

\* create_processed_pdf raised: process_pdf wrote its message to the error file
BuildFailed ==
  /\ "error.txt" \in DOMAIN processed
  /\ processed["error.txt"] \in
       {ErrorFile("Error processing PDF", m) :
          m \in {"reading words failed", "merging the overlay failed",
                 "writing the output failed"}}

\* C6 (as claimed): when building the redacted PDF fails (reading the words,
\* compositing the overlay of a page, writing the output) the request fails:
\* the response has a non-success status and an error code, and it returns
\* no document.
C6_BuildFailureFailsRequest ==
  BuildFailed =>
    /\ response.status # "success"
    /\ response.code >= 400
    /\ response.file.kind \notin {"pdf", "partial"}

\* create_processed_pdf returned: the file at the output path is the one it wrote
Redacted ==
  /\ "processed.pdf" \in DOMAIN processed
  /\ processed["processed.pdf"].kind = "pdf"
  /\ processed["processed.pdf"].encoder = "PyPDF2"

\* C11: when create_processed_pdf succeeds, the output has as many pages as
\* the input, in the same order: output page i is input page i composited
\* with the overlay computed from the words of input page i; no page is
\* skipped, duplicated or reordered.
C11_PagesPreserved ==
  Redacted =>
    LET out == processed["processed.pdf"].pages
        inp == request.body.pages
    IN /\ Len(out) = Len(inp)
       /\ \A i \in DOMAIN inp :
            /\ out[i].words = inp[i].words
            /\ \A b \in DOMAIN out[i].overlay.boxes :
                 out[i].overlay.boxes[b].word \in DOMAIN inp[i].words

\* a redacted PDF of two different pages, with a box on the second
C11_Witness ==
  /\ Redacted
  /\ Len(request.body.pages) = 2
  /\ request.body.pages[1].words # request.body.pages[2].words
  /\ processed["processed.pdf"].pages[2].overlay.boxes # <<>>

\* the request was handled and its document could not be read: pdfplumber
\* could not open the PDF, or python-docx could not extract the DOCX
Unreadable ==
  /\ response # NoResponse
  /\ fault.step = "open"
  /\ request.file_ext \in {".pdf", ".docx"}

\* C12 (as claimed): when the uploaded document cannot be read or parsed at
\* all, the request is aborted: the caller gets a non-success status, and no
\* success response carries an empty or unprocessed document.
C12_UnreadableDocumentFails ==
  Unreadable =>
    /\ response.status # "success"
    /\ response.code >= 400
    /\ response.file = NoFile

\* process_pdf or process_file went past the scan: the page redactor, the
\* passthrough or the text transformer was given the findings map phi_data
Transformed ==
  /\ response # NoResponse
  /\ fault.step # "save"

C14_UnknownPolicyRaises ==
  op \notin KnownPolicies \cup {"none"} =>
    /\ op = "ValueError"
    /\ result = <<>>
    /\ replaced = {}
    /\ tokens = <<>>

\* process_text raised on a text in which a finding of the map occurs
C14_Witness ==
  /\ op = "ValueError"
  /\ \E sub \in Range(Iteration(phi_data)) : Occurrences(Cells(text), sub) # {}

\* C15 (as claimed): in a redacted PDF the footer of each page states the
\* policy applied and the number of redactions made on that page: the count
\* printed equals the number of boxes drawn on that page alone.
C15_FooterCountsOwnPage ==
  (Redacted /\ request.handling_method \in KnownPolicies) =>
    \A i \in DOMAIN processed["processed.pdf"].pages :
      LET overlay == processed["processed.pdf"].pages[i].overlay
      IN /\ overlay.footer.policy = request.handling_method
         /\ overlay.footer.count = Len(overlay.boxes)

\* a box of the overlay covers word w for the finding sub
Boxed(overlay, w, sub) ==
  \E b \in DOMAIN overlay.boxes :
    overlay.boxes[b].word = w /\ overlay.boxes[b].phi_instance = sub

\* C16: on every page of a PDF redacted with one of the three policies, a box
\* is drawn for a finding substring and a word of the page if and only if the
\* substring has at least 3 characters and occurs in the word's text (equal
\* to it or inside it): shorter findings never produce a box, and every word
\* that contains a finding of 3 or more characters is covered.
C16_BoxIffLongFindingInWord ==
  (Redacted /\ request.handling_method \in KnownPolicies) =>
    \A i \in DOMAIN processed["processed.pdf"].pages :
      LET page == processed["processed.pdf"].pages[i]
      IN \A sub \in Range(Iteration(phi_data)), w \in DOMAIN page.words :
           Boxed(page.overlay, w, sub)
             <=> (Len(sub) >= 3 /\ Contains(page.words[w], sub))

\* a page with a word that properly contains a finding of 3 characters, and a
\* finding of fewer than 3 characters that occurs in a word of the page
C16_Witness ==
  /\ Redacted
  /\ request.handling_method \in KnownPolicies
  /\ \E i \in DOMAIN processed["processed.pdf"].pages :
       LET page == processed["processed.pdf"].pages[i]
       IN /\ \E sub \in Range(Iteration(phi_data)), w \in DOMAIN page.words :
               Len(sub) >= 3 /\ Contains(page.words[w], sub) /\ page.words[w] # sub
          /\ \E sub \in Range(Iteration(phi_data)), w \in DOMAIN page.words :
               Len(sub) < 3 /\ Contains(page.words[w], sub)

\* the findings of a registry that are in the returned map, for every pattern
\* but the failing one
OtherPatternsReported(patterns) ==
  \A i \in DOMAIN patterns :
    \A j \in DOMAIN patterns[i].pattern_list :
      ~pattern_raises(patterns[i].phi_type, j) =>
      Range(re_findall(patterns[i].pattern_list[j], scan_text))
        \subseteq Range(dict_get(scanned, patterns[i].phi_type))

\* the entities of every chunk but the failing one are in the returned map
OtherChunksReported ==
  \A i \in DOMAIN chunks_of(scan_text) :
    ~chunk_raises(i) =>
      \A ent \in Range(doc_ents(nlp, chunks_of(scan_text)[i])) :
        entity_mapping(ent.label_) # "unmapped" =>
          ent.text \in Range(dict_get(scanned, entity_mapping(ent.label_)))

\* the context windows of section i: what follows each match of its header
section_windows(content, i) ==
  LET ends == re_finditer_ends(sections[i].section_pattern, content)
  IN [m \in DOMAIN ends |->
        Slice(content, ends[m], ends[m] + sections[i].context_length)]

\* the entities of every context window but the failing one are in the
\* returned map
OtherWindowsReported ==
  \A i \in DOMAIN sections :
    \A m \in DOMAIN section_windows(scan_text, i) :
      ~window_raises(m) =>
        \A ent \in Range(doc_ents(nlp, section_windows(scan_text, i)[m])) :
          ent.label_ \in context_labels =>
            ent.text \in Range(dict_get(scanned, "PHI_" \o ent.label_))

\* C17 (as claimed): a failure on one item of the scan (one pattern, one
\* entity-recognition chunk, one context window after a section header) is
\* isolated: the scan still returns, and every other pattern, chunk and
\* context window has contributed its findings to the returned map.
C17_ItemFailureIsolated ==
  (runs > 0 /\ fault \in ItemFaults) =>
    /\ OtherPatternsReported(regex_patterns)
    /\ OtherPatternsReported(medical_patterns)
    /\ OtherChunksReported
    /\ OtherWindowsReported

\* C18 (as claimed): every person, organization or location entity the
\* context scanner finds in the window after a section header is recorded
\* under the category the mapping table of the entity scanner gives its
\* label, so an entity found by both scanners is in one category of the
\* returned map.
C18_ContextEntitiesUnderMappedCategory ==
  runs > 0 =>
    \A i \in DOMAIN sections :
      \A m \in DOMAIN section_windows(scan_text, i) :
        \A ent \in Range(doc_ents(nlp, section_windows(scan_text, i)[m])) :
          ent.label_ \in context_labels =>
            /\ ent.text \in Range(dict_get(medical_phi_data,
                                           entity_mapping(ent.label_)))
            /\ \A k \in DOMAIN scanned :
                 ent.text \in Range(scanned[k].instances)
                   => scanned[k].phi_type \in
                        {entity_mapping(l) : l \in context_labels}
                        \cup {regex_patterns[p].phi_type : p \in DOMAIN regex_patterns}
                        \cup {medical_patterns[p].phi_type : p \in DOMAIN medical_patterns}

\* C19: the entity scanner passes the text to the recognizer in consecutive
\* non-overlapping windows of chunk_size characters, the last one possibly
\* shorter and none empty: the windows in order make up the text, the
\* recognizer is called once per window, the findings of all windows are in
\* the result, and an empty text gives no window and no call.
C19_ChunksPartitionText ==
  (runs > 0 /\ fault = NoFault) =>
    /\ join(<<>>, nlp_calls, 1) = scan_text
    /\ \A i \in DOMAIN nlp_calls :
         /\ Len(nlp_calls[i]) >= 1
         /\ i < Len(nlp_calls) => Len(nlp_calls[i]) = chunk_size
         /\ Len(nlp_calls[i]) <= chunk_size
         /\ \A ent \in Range(doc_ents(nlp, nlp_calls[i])) :
              entity_mapping(ent.label_) # "unmapped" =>
                ent.text \in Range(dict_get(ner_phi_data,
                                            entity_mapping(ent.label_)))
    /\ scan_text = <<>> => nlp_calls = <<>>

\* a text of more than one window, the last one shorter, with an entity found
\* in the first window and one in the last
C19_Witness ==
  /\ runs > 0
  /\ Len(nlp_calls) >= 2
  /\ Len(nlp_calls[Len(nlp_calls)]) < chunk_size
  /\ \E ent \in Range(doc_ents(nlp, nlp_calls[1])) :
       entity_mapping(ent.label_) # "unmapped"
  /\ \E ent \in Range(doc_ents(nlp, nlp_calls[Len(nlp_calls)])) :
       entity_mapping(ent.label_) # "unmapped"

\* C20: the temporary file phi_scan_text creates is released on every exit
\* path: once the request is answered no temporary file exists, whether
\* phi_scan_text returned findings or the write of the text or the scan raised.
C20_TempFileReleased ==
  response # NoResponse => temp_files = {}

\* a request whose scan raised after the text had been written to the
\* temporary file
C20_Witness ==
  /\ Transformed
  /\ fault.step = "scan"
  /\ text \in Texts \ {<<>>}
  /\ response.status = "success"
  /\ temp_files = {}

\* the request was handled and, inside phi_scan_text, the write of the text
\* to the temporary file or the scan raised
ScanRaised ==
  /\ response # NoResponse
  /\ fault.step \in {"tempwrite", "scan"}

\* C21: when the scan raises inside phi_scan_text, the findings map the
\* handlers get is empty and the request is answered as a success, with no
\* error status and no error file: a PDF is written and returned as the
\* uploaded bytes themselves, whatever the policy, and a text document handled
\* with one of the three policies is written and returned as the extracted
\* text, nothing replaced and no token drawn.
C21_ScanFailureReturnsUnmodified ==
  ScanRaised =>
    /\ phi_data = <<>>
    /\ response.status = "success"
    /\ response.code = 200
    /\ request.file_ext = ".pdf" =>
         /\ processed = ("processed.pdf" :> request.body)
         /\ response.file = request.body
    /\ (request.file_ext # ".pdf" /\ request.handling_method \in KnownPolicies) =>
         /\ processed = ("processed.txt" :> TextFile(text))
         /\ response.file = TextFile(text)
         /\ Plain(result) = text
         /\ tokens = <<>>

\* a text file in which the scan, had it not raised, would have found
\* something to redact, returned as uploaded
C21_Witness ==
  /\ ScanRaised
  /\ fault.step = "scan"
  /\ request.file_ext = ".txt"
  /\ request.handling_method = "redact"
  /\ \A d \in phi_scan(text, nlp) :
       \E sub \in Range(Iteration(d)) : Occurrences(Cells(text), sub) # {}
  /\ response.file = request.body

====
